---------------------------- MODULE Spec2Model ----------------------------
(***************************************************************************)
(* Model of pyftdi's I2C master (src/pyftdi/i2c.py): the I2cController     *)
(* with its slave cache, the four bus operations read / write / exchange / *)
(* poll with their prolog, payload, epilog and NACK retry loop, and the    *)
(* chunked read.  The FTDI engine (pyftdi.ftdi.Ftdi) is outside the        *)
(* sources: it is modelled at its interface, as a device that accepts      *)
(* every command buffer written to it and answers a read request with the  *)
(* bytes asked for or with fewer; a transport failure shows as a missing   *)
(* reply, and an engine that was never opened gives no reply at all.       *)
(*                                                                         *)
(* Three specifications share the initial state and the steps of a running *)
(* call: Spec makes its calls on the controller, PortSpec through a slave  *)
(* handle (I2cPort), and ReadSpec reads on controllers of every small pair *)
(* of FIFO sizes, those that leave no room for a read unit included.       *)
(***************************************************************************)
EXTENDS Integers, Sequences, FiniteSets, TLC

(***************************************************************************)
(* Bounds of the model.                                                    *)
(***************************************************************************)
\* longest outbound payload a caller passes
MaxOutLen == 2
\* largest read length a caller passes to a call that goes to the bus
MaxReadLen == 4
\* round trips of one run of _do_read that are followed: one more than a
\* read of MaxReadLen bytes needs when every chunk brings at least one byte
MaxRounds == MaxReadLen + 1

(***************************************************************************)
(* Class constants of I2cController.                                       *)
(***************************************************************************)
LOW == 0
HIGH == 255
BIT0 == 1
IDLE == HIGH
SCL_BIT == 1
SDA_O_BIT == 2
PAYLOAD_MAX_LENGTH == 65536
HIGHEST_I2C_ADDRESS == 127
RETRY_COUNT == 3

(***************************************************************************)
(* MPSSE opcodes of the engine (class constants of Ftdi).                  *)
(***************************************************************************)
SET_BITS_LOW == 128
SEND_IMMEDIATE == 135
READ_BITS_PVE_MSB == 34
READ_BYTES_PVE_MSB == 32
WRITE_BYTES_NVE_MSB == 17
WRITE_BITS_NVE_MSB == 19

(***************************************************************************)
(* Integer helpers: Python's min, 8-bit & and |, and sequence repetition   *)
(* (seq * n is empty for n <= 0).                                          *)
(***************************************************************************)
Min(a, b) == IF a <= b THEN a ELSE b

RECURSIVE BitAnd(_, _)
BitAnd(a, b) ==
    IF a = 0 \/ b = 0 THEN 0
    ELSE (a % 2) * (b % 2) + 2 * BitAnd(a \div 2, b \div 2)

RECURSIVE BitOr(_, _)
BitOr(a, b) ==
    IF a = 0 THEN b
    ELSE IF b = 0 THEN a
    ELSE (IF a % 2 = 1 \/ b % 2 = 1 THEN 1 ELSE 0) + 2 * BitOr(a \div 2, b \div 2)

\* a & ~b on 8 bits
BitClear(a, b) == BitAnd(a, 255 - b)

RECURSIVE Repeat(_, _)
Repeat(s, n) == IF n <= 0 THEN <<>> ELSE s \o Repeat(s, n - 1)

(***************************************************************************)
(* Command templates built by I2cController.__init__.                      *)
(***************************************************************************)
direction == BitOr(SCL_BIT, SDA_O_BIT)
immediate == <<SEND_IMMEDIATE>>
idle == <<SET_BITS_LOW, IDLE, direction>>
data_low == <<SET_BITS_LOW, BitClear(IDLE, SDA_O_BIT), direction>>
clock_low_data_low ==
    <<SET_BITS_LOW, BitClear(IDLE, BitOr(SDA_O_BIT, SCL_BIT)), direction>>
clock_low_data_high == <<SET_BITS_LOW, BitClear(IDLE, SCL_BIT), direction>>
read_bit == <<READ_BITS_PVE_MSB, 0>>
read_byte == <<READ_BYTES_PVE_MSB, 0, 0>>
write_byte == <<WRITE_BYTES_NVE_MSB, 0, 0>>
nack == <<WRITE_BITS_NVE_MSB, 0, HIGH>>
ack == <<WRITE_BITS_NVE_MSB, 0, LOW>>
start == Repeat(data_low, 4) \o Repeat(clock_low_data_low, 4)
stop == Repeat(clock_low_data_low, 4) \o Repeat(data_low, 4) \o Repeat(idle, 4)

(***************************************************************************)
(* Inputs of the calls.                                                    *)
(***************************************************************************)
\* addresses a caller asks a port for: the two ends of the valid range and
\* the first address above it
Addresses == {0, HIGHEST_I2C_ADDRESS, HIGHEST_I2C_ADDRESS + 1}
\* addresses a caller passes to a bus operation: the last valid one and the
\* first invalid one
BusAddresses == {HIGHEST_I2C_ADDRESS, HIGHEST_I2C_ADDRESS + 1}
\* outbound payloads: the prefixes of 4, 5, 6, ...
Outs == {[i \in 1..n |-> 3 + i] : n \in 0..MaxOutLen}
\* read lengths that may go to the bus
ReadLens == 0..MaxReadLen
\* read lengths above the protocol maximum of exchange
LargeReadLens == {PAYLOAD_MAX_LENGTH \div 3, PAYLOAD_MAX_LENGTH}
\* (send, receive) FIFO sizes an engine reports: sizes that leave room for
\* at least one read unit, here for 3 units sent and 2 bytes received
FifoSizes == {<<28, 4>>}

(***************************************************************************)
(* State.                                                                  *)
(*   ftdi        self._ftdi: "closed" (the Ftdi object of __init__, not    *)
(*               opened), "open" (after configure), "none" (None)          *)
(*   tx_size, rx_size, slaves                    fields of I2cController   *)
(*   ports       the I2cPort objects created so far; a handle is its index *)
(*   op, address, out, readlen                   the call and its arguments*)
(*   pc          "idle" (no call running), "prolog", "write", "prolog2",   *)
(*               "read", "epilog", "done" (the call returned or raised)    *)
(*   i2caddress, retries                         locals of the operation   *)
(*   sent        bytes of out already written by _do_write                 *)
(*   count, last_count, last_cmd, chunks         locals of _do_read        *)
(*   pending     what the try block decided and the finally clause delays  *)
(*   result, retval   how the call ended and what it returned              *)
(*   log         the calls the call made to the engine                     *)
(*   built       command buffers the running _do_read has built, kept with *)
(*               the log until the caller has the result                   *)
(*   via         the I2cPort method the call was made through, with the    *)
(*               handle and the method's arguments; NoPort for a call made *)
(*               on the controller itself                                  *)
(***************************************************************************)
VARIABLES ftdi, tx_size, rx_size, slaves, ports,
          op, address, out, readlen, pc, i2caddress, retries,
          sent, count, last_count, last_cmd, chunks,
          pending, result, retval, log, built, via

ctrl == <<ftdi, tx_size, rx_size, slaves, ports>>
args == <<op, address, out, readlen, via>>
rlocals == <<count, last_count, last_cmd, chunks>>
vars == <<ftdi, tx_size, rx_size, slaves, ports,
          op, address, out, readlen, pc, i2caddress, retries,
          sent, count, last_count, last_cmd, chunks,
          pending, result, retval, log, built, via>>

\* how a call ends: a return, or an exception with its message
Outcome(k, m) == [kind |-> k, msg |-> m]
NoOutcome == Outcome("none", "")
Returned == Outcome("return", "")
ReturnedTrue == Outcome("return", "True")
ReturnedFalse == Outcome("return", "False")
Continue == Outcome("continue", "")
NotInitialized == Outcome("I2cIOError", "FTDI controller not initialized")
NoSuchSlave == Outcome("I2cIOError", "No such I2c slave")
NothingToRead == Outcome("I2cIOError", "Nothing to read")
NothingToWrite == Outcome("I2cIOError", "Nothing to write")
TooLarge == Outcome("I2cIOError", "Input payload is too large")
NoAnswer == Outcome("I2cIOError", "No answer from FTDI")
NackFromSlave == Outcome("I2cNackError", "NACK from slave")

\* None, for last_cmd
None == <<>>

\* a call of method m on the handle h: regaddr and out are the arguments of
\* read_from, write_to, write and exchange, offset that of shift_address,
\* bigendian and width those of configure_register
PortCall(h, m, r, o, offset, bigendian, width) ==
    [port |-> h, method |-> m, regaddr |-> r, out |-> o, offset |-> offset,
     bigendian |-> bigendian, width |-> width]
NoPort == PortCall(0, "", 0, <<>>, 0, FALSE, 0)

(***************************************************************************)
(* The engine: write_data(cmd) takes the buffer, read_data_bytes(n, _)     *)
(* answers with at most n bytes.  An engine that is not open answers       *)
(* nothing; an open one answers a read of n data bytes in full or one byte *)
(* short, and a read of no byte or of a negative count with nothing.  The  *)
(* log keeps, for a write, the buffer, and for a read, the   *)
(* count asked for and the reply as far as the caller looks at it (the     *)
(* reply to the epilog is dropped unseen and is logged as empty).          *)
(***************************************************************************)
WriteData(cmd) == [t |-> "W", cmd |-> cmd, n |-> 0, reply |-> <<>>]
ReadDataBytes(n, reply) == [t |-> "R", cmd |-> <<>>, n |-> n, reply |-> reply]
AckReplies == IF ftdi = "open" THEN {<<>>, <<0>>, <<1>>} ELSE {<<>>}
DataReplies(n) ==
    IF ftdi = "open" /\ n > 0
    THEN {[i \in 1..k |-> 160 + i] : k \in {n - 1, n} \cap (0..n)}
    ELSE {<<>>}

\* write_data(None): the engine may raise on the missing buffer or take it
\* as it takes an empty one
TypeError == Outcome("TypeError", "")
WriteOutcomes(cmd) ==
    IF cmd = None THEN {"accepted", "raises"} ELSE {"accepted"}

(***************************************************************************)
(* Checks and address encoding of the top-level operations.                *)
(***************************************************************************)
\* "not self._ftdi": an Ftdi object is true, None is false
NoFtdi == ftdi = "none"

\* validate_address raises when this holds
BadAddress(a) == a > HIGHEST_I2C_ADDRESS

\* "not out or len(out) < 1"
NoPayload(o) == Len(o) < 1

\* "readlen < 1"
NoReadLen(n) == n < 1

\* ReadLenTooLarge against the whole 16-bit length, without the "/3-1"
ReadLenTooLargeWhole(n) == n > PAYLOAD_MAX_LENGTH

\* "readlen > PAYLOAD_MAX_LENGTH/3-1", a true division: 3*readlen > MAX - 3
ReadLenTooLarge(n) == 3 * n > PAYLOAD_MAX_LENGTH - 3

\* (address << 1) & self.HIGH
WriteAddress(a) == BitAnd(a * 2, HIGH)

\* ((address << 1) & self.HIGH) | self.BIT0
ReadAddress(a) == BitOr(WriteAddress(a), BIT0)

\* the first check that fails in read(), or Returned when all pass
ReadChecks(a, n) ==
    IF NoFtdi THEN NotInitialized
    ELSE IF BadAddress(a) THEN NoSuchSlave
    ELSE IF NoReadLen(n) THEN NothingToRead
    ELSE Returned

WriteChecks(a, o) ==
    IF NoFtdi THEN NotInitialized
    ELSE IF BadAddress(a) THEN NoSuchSlave
    ELSE IF NoPayload(o) THEN NothingToWrite
    ELSE Returned

ExchangeChecks(a, o, n) ==
    IF NoFtdi THEN NotInitialized
    ELSE IF BadAddress(a) THEN NoSuchSlave
    ELSE IF NoPayload(o) THEN NothingToWrite
    ELSE IF NoReadLen(n) THEN NothingToRead
    ELSE IF ReadLenTooLarge(n) THEN TooLarge
    ELSE Returned

PollChecks(a) ==
    IF NoFtdi THEN NotInitialized
    ELSE IF BadAddress(a) THEN NoSuchSlave
    ELSE Returned

(***************************************************************************)
(* Command buffers.                                                        *)
(***************************************************************************)
\* the buffer _do_prolog writes
PrologCmd(a) ==
    idle \o start \o write_byte \o <<a>> \o clock_low_data_high \o read_bit
         \o immediate

\* EpilogCmd ending with the stop condition, without releasing the lines
EpilogCmdNoIdle == Repeat(clock_low_data_low, 4) \o Repeat(data_low, 4)

\* the buffer _do_epilog writes
EpilogCmd == stop

\* the buffer _do_write writes for one byte
WriteCmd(b) == write_byte \o <<b>> \o clock_low_data_high \o read_bit \o immediate

\* IsNack that never sees a refusal
IsNackNever(reply) == FALSE

\* "ack[0] & self.BIT0"
IsNack(reply) == BitAnd(reply[1], BIT0) # 0

\* locals of _do_read
read_not_last == read_byte \o ack \o clock_low_data_high
read_last == read_byte \o nack \o clock_low_data_high
cmd_size == Len(read_last)

\* tx_count without the byte kept for the immediate-flush marker
tx_countWhole == tx_size \div cmd_size

\* "(self._tx_size-1) // cmd_size"
tx_count == (tx_size - 1) \div cmd_size

\* chunk_size from the receive capacity alone
chunk_sizeNoTx == rx_size - 2

\* "min(tx_count, chunk_size)" with chunk_size = self._rx_size-2
chunk_size == Min(tx_count, rx_size - 2)

\* BlockCount without the min: every block as large as the chunk size
BlockCountNoMin(c) == chunk_size

\* block_count of one turn of the loop of _do_read
BlockCount(c) == Min(c, chunk_size)

\* the buffer built when the block size differs from last_count
NewReadCmd(block_count) == Repeat(read_not_last, block_count - 1) \o read_last

\* cmd of one turn of the loop, before the immediate marker is added
ReadCmd(block_count) ==
    IF last_count # block_count THEN NewReadCmd(block_count) ELSE last_cmd

\* the buffers built once the turn of the loop is over: one more when the
\* block size differs from last_count
BuiltAfter(block_count) ==
    IF last_count # block_count THEN built + 1 ELSE built

\* FlushedCmd with the marker on every chunk
FlushedCmdAlways(cmd, c) == cmd \o immediate

\* "if count <= 0: cmd.extend(self._immediate)", count already decremented
FlushedCmd(cmd, c) == IF c <= 0 THEN cmd \o immediate ELSE cmd

\* b''.join(chunks)
RECURSIVE Join(_)
Join(cs) == IF cs = <<>> THEN <<>> ELSE Head(cs) \o Join(Tail(cs))

(***************************************************************************)
(* The except and finally clauses of the retry loops.                      *)
(***************************************************************************)
\* retries after an exception of kind exc was raised in the try block
RetriesAfter(exc) ==
    IF exc.kind = "I2cNackError" /\ op # "poll" THEN retries - 1 ELSE retries

\* Handled with the budget test off by one ("if retries < 0")
HandledOneMore(exc) ==
    IF exc.kind = "I2cNackError"
    THEN IF op = "poll" THEN ReturnedFalse
         ELSE IF RetriesAfter(exc) < 0 THEN exc ELSE Continue
    ELSE exc

\* Handled with a bare "except:" that retries after any exception
HandledAnyError(exc) ==
    IF op = "poll" THEN (IF exc.kind = "I2cNackError" THEN ReturnedFalse ELSE exc)
    ELSE IF RetriesAfter(exc) = 0 THEN exc ELSE Continue

\* Handled without the except clause of poll: the exception leaves poll
HandledPollRaises(exc) ==
    IF exc.kind = "I2cNackError"
    THEN IF RetriesAfter(exc) = 0 \/ op = "poll" THEN exc ELSE Continue
    ELSE exc

\* what the except clause leaves for after the finally clause
Handled(exc) ==
    IF exc.kind = "I2cNackError"
    THEN IF op = "poll" THEN ReturnedFalse
         ELSE IF RetriesAfter(exc) = 0 THEN exc ELSE Continue
    ELSE exc

(***************************************************************************)
(* Initial state: a controller as __init__ leaves it, no call made yet.    *)
(***************************************************************************)
Init ==
    /\ ftdi = "closed"
    /\ tx_size = 1
    /\ rx_size = 1
    /\ slaves = <<>>
    /\ ports = <<>>
    /\ op = "none"
    /\ address = 0
    /\ out = <<>>
    /\ readlen = 0
    /\ pc = "idle"
    /\ i2caddress = 0
    /\ retries = 0
    /\ sent = 0
    /\ count = 0
    /\ last_count = 0
    /\ last_cmd = None
    /\ chunks = <<>>
    /\ pending = NoOutcome
    /\ result = NoOutcome
    /\ retval = <<>>
    /\ log = <<>>
    /\ built = 0
    /\ via = NoPort

\* the locals of a call that is not running
NoLocals ==
    /\ i2caddress' = 0
    /\ retries' = 0
    /\ sent' = 0
    /\ count' = 0
    /\ last_count' = 0
    /\ last_cmd' = None
    /\ chunks' = <<>>
    /\ pending' = NoOutcome

\* a call of the controller that does not go to the bus ends at once
Ends(o, a, payload, n, how, value) ==
    /\ pc = "idle"
    /\ op' = o
    /\ address' = a
    /\ out' = payload
    /\ readlen' = n
    /\ pc' = "done"
    /\ NoLocals
    /\ result' = how
    /\ retval' = value
    /\ log' = <<>>
    /\ built' = 0

(***************************************************************************)
(* configure, terminate, get_port.                                         *)
(***************************************************************************)
\* how configure can go: the engine opens, it fails to open, or it opens
\* and lacks the drive-zero mode a caller passing notristate=False insists on
Openings == {"opens", "fails", "no drive-zero"}

\* configure(url): opens the engine and stores its FIFO sizes; on None the
\* attribute access fails
Configure(sizes, opening) ==
    /\ IF NoFtdi
       THEN /\ Ends("configure", 0, <<>>, 0, Outcome("AttributeError", ""), <<>>)
            /\ UNCHANGED ctrl
       ELSE IF opening = "fails"
       THEN /\ Ends("configure", 0, <<>>, 0, Outcome("FtdiError", ""), <<>>)
            /\ UNCHANGED ctrl
       ELSE /\ Ends("configure", 0, <<>>, 0,
                    IF opening = "opens" THEN Returned
                    ELSE Outcome("FtdiFeatureError", ""), <<>>)
            /\ ftdi' = "open"
            /\ tx_size' = sizes[1]
            /\ rx_size' = sizes[2]
            /\ UNCHANGED <<slaves, ports>>
    /\ via' = NoPort

\* terminate()
Terminate ==
    /\ Ends("terminate", 0, <<>>, 0, Returned, <<>>)
    /\ ftdi' = "none"
    /\ UNCHANGED <<tx_size, rx_size, slaves, ports>>
    /\ via' = NoPort

\* I2cPort.__init__
I2cPort(a) == [address |-> a, shift |-> 0, endian |-> "<", format |-> "B"]

\* the first check that fails in get_port(), or Returned
GetPortChecks(a) ==
    IF NoFtdi THEN NotInitialized
    ELSE IF BadAddress(a) THEN NoSuchSlave
    ELSE Returned

\* SlavesAfter without the membership test: a new port at every call
SlavesAfterNoCache(a) == [b \in DOMAIN slaves \cup {a} |->
                            IF b = a THEN Len(ports) + 1 ELSE slaves[b]]

\* self._slaves after get_port(a) passed its checks
SlavesAfter(a) ==
    IF a \in DOMAIN slaves THEN slaves ELSE slaves @@ (a :> Len(ports) + 1)

\* get_port(address): the handle is the index of the port object
GetPort(a) ==
    /\ IF GetPortChecks(a) # Returned
       THEN /\ Ends("get_port", a, <<>>, 0, GetPortChecks(a), <<>>)
            /\ UNCHANGED ctrl
       ELSE /\ Ends("get_port", a, <<>>, 0, Returned, <<SlavesAfter(a)[a]>>)
            /\ slaves' = SlavesAfter(a)
            /\ ports' = IF a \in DOMAIN slaves THEN ports
                        ELSE Append(ports, I2cPort(a))
            /\ UNCHANGED <<ftdi, tx_size, rx_size>>
    /\ via' = NoPort

(***************************************************************************)
(* read, write, exchange, poll: the checks, then the first prolog.         *)
(***************************************************************************)
\* a call that passed its checks enters its try block
Enters(o, a, payload, n, first, budget) ==
    /\ pc = "idle"
    /\ op' = o
    /\ address' = a
    /\ out' = payload
    /\ readlen' = n
    /\ pc' = "prolog"
    /\ i2caddress' = first
    /\ retries' = budget
    /\ sent' = 0
    /\ count' = 0
    /\ last_count' = 0
    /\ last_cmd' = None
    /\ chunks' = <<>>
    /\ pending' = NoOutcome
    /\ result' = NoOutcome
    /\ retval' = <<>>
    /\ log' = <<>>
    /\ built' = 0
    /\ UNCHANGED ctrl

\* read(address, readlen)
Read(a, n) ==
    IF ReadChecks(a, n) # Returned
    THEN Ends("read", a, <<>>, n, ReadChecks(a, n), <<>>) /\ UNCHANGED ctrl
    ELSE Enters("read", a, <<>>, n, ReadAddress(a), RETRY_COUNT)

\* write(address, out)
Write(a, o) ==
    IF WriteChecks(a, o) # Returned
    THEN Ends("write", a, o, 0, WriteChecks(a, o), <<>>) /\ UNCHANGED ctrl
    ELSE Enters("write", a, o, 0, WriteAddress(a), RETRY_COUNT)

\* exchange(address, out, readlen)
Exchange(a, o, n) ==
    IF ExchangeChecks(a, o, n) # Returned
    THEN Ends("exchange", a, o, n, ExchangeChecks(a, o, n), <<>>) /\ UNCHANGED ctrl
    ELSE Enters("exchange", a, o, n, WriteAddress(a), RETRY_COUNT)

\* poll(address): no retry loop
Poll(a) ==
    IF PollChecks(a) # Returned
    THEN Ends("poll", a, <<>>, 0, PollChecks(a), <<>>) /\ UNCHANGED ctrl
    ELSE Enters("poll", a, <<>>, 0, ReadAddress(a), 0)

(***************************************************************************)
(* The steps of a running call: each is one round trip with the engine.    *)
(***************************************************************************)
\* an exception leaves the try block: the except clause, then on to finally
Raises(exc) ==
    /\ pc' = "epilog"
    /\ pending' = Handled(exc)
    /\ retries' = RetriesAfter(exc)
    /\ sent' = 0
    /\ count' = 0
    /\ last_count' = 0
    /\ last_cmd' = None
    /\ chunks' = <<>>
    /\ UNCHANGED <<retval>>

\* a return statement of the try block: on to finally
Returns(how, value) ==
    /\ pc' = "epilog"
    /\ pending' = how
    /\ retval' = value
    /\ sent' = 0
    /\ count' = 0
    /\ last_count' = 0
    /\ last_cmd' = None
    /\ chunks' = <<>>
    /\ UNCHANGED <<retries>>

\* PrologAddress without the read bit at the repeated start
PrologAddressNoBit0 == i2caddress

\* the address byte of the prolog at pc
PrologAddress == IF pc = "prolog2" THEN BitOr(i2caddress, BIT0) ELSE i2caddress

\* what follows an acknowledged prolog
AfterProlog ==
    IF op = "write" \/ (op = "exchange" /\ pc = "prolog") THEN "write" ELSE "read"

\* _do_prolog(i2caddress)
DoProlog ==
    /\ pc \in {"prolog", "prolog2"}
    /\ \E reply \in AckReplies :
          /\ log' = log \o <<WriteData(PrologCmd(PrologAddress)),
                              ReadDataBytes(1, reply)>>
          /\ IF reply = <<>> THEN Raises(NoAnswer)
             ELSE IF IsNack(reply) THEN Raises(NackFromSlave)
             ELSE IF op = "poll" THEN Returns(ReturnedTrue, <<>>)
             ELSE /\ pc' = AfterProlog
                  /\ sent' = 0
                  /\ count' = IF AfterProlog = "read" THEN readlen ELSE 0
                  /\ last_count' = 0
                  /\ last_cmd' = None
                  /\ chunks' = <<>>
                  /\ UNCHANGED <<pending, retries, retval>>
    /\ built' = 0
    /\ UNCHANGED <<ctrl, args, i2caddress, result>>

\* one turn of the loop of _do_write(out), and what follows its last turn
DoWrite ==
    /\ pc = "write"
    /\ sent < Len(out)
    /\ \E reply \in AckReplies :
          /\ log' = log \o <<WriteData(WriteCmd(out[sent + 1])),
                              ReadDataBytes(1, reply)>>
          /\ IF reply = <<>> THEN Raises(NoAnswer)
             ELSE IF IsNack(reply) THEN Raises(NackFromSlave)
             ELSE IF sent + 1 < Len(out)
             THEN /\ sent' = sent + 1
                  /\ UNCHANGED <<pc, pending, retries, retval, rlocals>>
             ELSE IF op = "write" THEN Returns(Returned, <<>>)
             ELSE /\ pc' = "prolog2"
                  /\ sent' = 0
                  /\ UNCHANGED <<pending, retries, retval, rlocals>>
    /\ UNCHANGED <<ctrl, args, i2caddress, result, built>>

\* one turn of the loop of _do_read(readlen), and the return after its last
DoRead ==
    /\ pc = "read"
    /\ count # 0
    /\ Len(chunks) < MaxRounds
    /\ LET block_count == BlockCount(count)
           left == count - block_count
           cmd == FlushedCmd(ReadCmd(block_count), left)
       IN  \E buf \in DataReplies(block_count), written \in WriteOutcomes(cmd) :
              IF written = "raises"
              THEN /\ log' = log
                   /\ built' = built
                   /\ Raises(TypeError)
              ELSE /\ built' = BuiltAfter(block_count)
                   /\ log' = log \o <<WriteData(cmd),
                                       ReadDataBytes(block_count, buf)>>
                   /\ IF left # 0
                      THEN /\ count' = left
                           /\ last_cmd' = cmd
                           /\ chunks' = Append(chunks, buf)
                           /\ UNCHANGED <<pc, pending, retries, retval, sent,
                                          last_count>>
                      ELSE Returns(Returned, Join(Append(chunks, buf)))
    /\ UNCHANGED <<ctrl, args, i2caddress, result>>

\* DoEpilog with the epilog after the try statement instead of in a finally
\* clause: an exception that is not caught leaves without the stop sequence
DoEpilogNotFinally ==
    /\ pc = "epilog"
    /\ log' = IF pending = NoAnswer THEN log
              ELSE log \o <<WriteData(EpilogCmd), ReadDataBytes(1, <<>>)>>
    /\ IF pending = Continue
       THEN /\ pc' = "prolog"
            /\ pending' = NoOutcome
            /\ UNCHANGED <<result, i2caddress, retries>>
       ELSE /\ pc' = "done"
            /\ result' = pending
            /\ pending' = NoOutcome
            /\ i2caddress' = 0
            /\ retries' = 0
    /\ UNCHANGED <<ctrl, args, retval, sent, rlocals, built>>

\* _do_epilog() in the finally clause, then the delayed return, raise or retry
DoEpilog ==
    /\ pc = "epilog"
    /\ log' = log \o <<WriteData(EpilogCmd), ReadDataBytes(1, <<>>)>>
    /\ IF pending = Continue
       THEN /\ pc' = "prolog"
            /\ pending' = NoOutcome
            /\ UNCHANGED <<result, i2caddress, retries>>
       ELSE /\ pc' = "done"
            /\ result' = pending
            /\ pending' = NoOutcome
            /\ i2caddress' = 0
            /\ retries' = 0
    /\ UNCHANGED <<ctrl, args, retval, sent, rlocals, built>>

\* the caller has the result: no call is running any more
Return ==
    /\ pc = "done"
    /\ pc' = "idle"
    /\ op' = "none"
    /\ address' = 0
    /\ out' = <<>>
    /\ readlen' = 0
    /\ result' = NoOutcome
    /\ retval' = <<>>
    /\ log' = <<>>
    /\ built' = 0
    /\ via' = NoPort
    /\ UNCHANGED <<ctrl, i2caddress, retries, sent, rlocals, pending>>

Next ==
    \/ \E sizes \in FifoSizes, opening \in Openings : Configure(sizes, opening)
    \/ Terminate
    \/ \E a \in Addresses : GetPort(a)
    \/ \E a \in BusAddresses, n \in ReadLens : Read(a, n) /\ via' = NoPort
    \/ \E a \in BusAddresses, o \in Outs : Write(a, o) /\ via' = NoPort
    \/ \E a \in BusAddresses, o \in Outs, n \in ReadLens \cup LargeReadLens :
          Exchange(a, o, n) /\ via' = NoPort
    \/ \E a \in BusAddresses : Poll(a) /\ via' = NoPort
    \/ DoProlog
    \/ DoWrite
    \/ DoRead
    \/ DoEpilog
    \/ Return

Spec == Init /\ [][Next]_vars

(***************************************************************************)
(* The slave handles: the methods of I2cPort.                              *)
(***************************************************************************)
\* struct.calcsize of a one-letter format
Scalc(fmt) == CASE fmt = "B" -> 1 [] fmt = "H" -> 2 [] fmt = "I" -> 4

\* I2cPort.FORMATS: the format letter of each supported width
FORMATS ==
    [w \in {Scalc(fmt) : fmt \in {"B", "H", "I"}} |->
        CHOOSE fmt \in {"B", "H", "I"} : Scalc(fmt) = w]

\* the width lowest bytes of v, lowest first
RECURSIVE LittleEndian(_, _)
LittleEndian(v, width) ==
    IF width = 0 THEN <<>>
    ELSE <<v % 256>> \o LittleEndian(v \div 256, width - 1)

Reverse(s) == [i \in 1..Len(s) |-> s[Len(s) + 1 - i]]

\* struct.pack raises struct.error unless the value fits the unsigned format
Fits(fmt, v) == v >= 0 /\ v \div (256 ^ (Scalc(fmt) - 1)) < 256
StructError == Outcome("struct.error", "")

\* Spack that ignores the byte order
SpackLittle(endian, fmt, v) == LittleEndian(v, Scalc(fmt))

\* struct.pack(endian + fmt, v) of a value that fits
Spack(endian, fmt, v) ==
    IF endian = "<" THEN LittleEndian(v, Scalc(fmt))
    ELSE Reverse(LittleEndian(v, Scalc(fmt)))

\* _make_buffer(regaddr, out) of a port; an empty or missing out adds nothing
MakeBuffer(port, regaddr, o) == Spack(port.endian, port.format, regaddr) \o o

\* "self._address+self._shift" of the port of handle h
PortAddress(h) == ports[h].address + ports[h].shift

UnsupportedWidth == Outcome("I2cIOError", "Unsupported integer width")

\* configure_register(bigendian, width)
ConfigureRegister(h, bigendian, width) ==
    /\ h \in 1..Len(ports)
    /\ via' = PortCall(h, "configure_register", 0, <<>>, 0, bigendian, width)
    /\ IF width \notin DOMAIN FORMATS
       THEN /\ Ends("configure_register", 0, <<>>, 0, UnsupportedWidth, <<>>)
            /\ UNCHANGED ctrl
       ELSE /\ Ends("configure_register", 0, <<>>, 0, Returned, <<>>)
            /\ ports' = [ports EXCEPT
                            ![h].format = FORMATS[width],
                            ![h].endian = IF bigendian THEN ">" ELSE "<"]
            /\ UNCHANGED <<ftdi, tx_size, rx_size, slaves>>

\* ShiftAddress with offsets that add up
ShiftAddressAdds(h, offset) ==
    /\ h \in 1..Len(ports)
    /\ via' = PortCall(h, "shift_address", 0, <<>>, offset, FALSE, 0)
    /\ IF BadAddress(ports[h].address + offset)
       THEN /\ Ends("shift_address", 0, <<>>, 0, NoSuchSlave, <<>>)
            /\ UNCHANGED ctrl
       ELSE /\ Ends("shift_address", 0, <<>>, 0, Returned, <<>>)
            /\ ports' = [ports EXCEPT ![h].shift = ports[h].shift + offset]
            /\ UNCHANGED <<ftdi, tx_size, rx_size, slaves>>

\* shift_address(offset)
ShiftAddress(h, offset) ==
    /\ h \in 1..Len(ports)
    /\ via' = PortCall(h, "shift_address", 0, <<>>, offset, FALSE, 0)
    /\ IF BadAddress(ports[h].address + offset)
       THEN /\ Ends("shift_address", 0, <<>>, 0, NoSuchSlave, <<>>)
            /\ UNCHANGED ctrl
       ELSE /\ Ends("shift_address", 0, <<>>, 0, Returned, <<>>)
            /\ ports' = [ports EXCEPT ![h].shift = offset]
            /\ UNCHANGED <<ftdi, tx_size, rx_size, slaves>>

\* I2cPort.read(readlen)
PortRead(h, n) ==
    /\ h \in 1..Len(ports)
    /\ via' = PortCall(h, "read", 0, <<>>, 0, FALSE, 0)
    /\ Read(PortAddress(h), n)

\* I2cPort.write(out)
PortWrite(h, o) ==
    /\ h \in 1..Len(ports)
    /\ via' = PortCall(h, "write", 0, o, 0, FALSE, 0)
    /\ Write(PortAddress(h), o)

\* read_from(regaddr, readlen): the buffer is made before exchange is called
ReadFrom(h, regaddr, n) ==
    /\ h \in 1..Len(ports)
    /\ via' = PortCall(h, "read_from", regaddr, <<>>, 0, FALSE, 0)
    /\ IF ~Fits(ports[h].format, regaddr)
       THEN Ends("read_from", 0, <<>>, n, StructError, <<>>) /\ UNCHANGED ctrl
       ELSE Exchange(PortAddress(h), MakeBuffer(ports[h], regaddr, <<>>), n)

\* write_to(regaddr, out): the buffer is made before write is called
WriteTo(h, regaddr, o) ==
    /\ h \in 1..Len(ports)
    /\ via' = PortCall(h, "write_to", regaddr, o, 0, FALSE, 0)
    /\ IF ~Fits(ports[h].format, regaddr)
       THEN Ends("write_to", 0, <<>>, 0, StructError, <<>>) /\ UNCHANGED ctrl
       ELSE Write(PortAddress(h), MakeBuffer(ports[h], regaddr, o))

\* I2cPort.exchange(out, readlen); out defaults to '' and readlen to 0
PortExchange(h, o, n) ==
    /\ h \in 1..Len(ports)
    /\ via' = PortCall(h, "exchange", 0, o, 0, FALSE, 0)
    /\ Exchange(PortAddress(h), o, n)

\* I2cPort.poll()
PortPoll(h) ==
    /\ h \in 1..Len(ports)
    /\ via' = PortCall(h, "poll", 0, <<>>, 0, FALSE, 0)
    /\ Poll(PortAddress(h))

(***************************************************************************)
(* Calls made through one slave handle.                                    *)
(***************************************************************************)
\* the address the handle is asked for
PortAddresses == {1}
\* offsets passed to shift_address: below the base address, up to the
\* highest address, and one past it
ShiftOffsets == {-2, HIGHEST_I2C_ADDRESS - 1, HIGHEST_I2C_ADDRESS}
\* widths passed to configure_register
Widths == 1..4
\* register addresses: one that fits a byte and one that needs two
RegAddrs == {6, 258}
\* payloads and read lengths passed to the handle
PortOuts == {<<>>, <<170>>}
PortReadLens == {0, 1}

PortNext ==
    \/ \E sizes \in FifoSizes : Configure(sizes, "opens")
    \/ \E a \in PortAddresses : GetPort(a)
    \/ \E h \in 1..Len(ports), bigendian \in BOOLEAN, width \in Widths :
          ConfigureRegister(h, bigendian, width)
    \/ \E h \in 1..Len(ports), offset \in ShiftOffsets : ShiftAddress(h, offset)
    \/ \E h \in 1..Len(ports), n \in PortReadLens : PortRead(h, n)
    \/ \E h \in 1..Len(ports), o \in PortOuts : PortWrite(h, o)
    \/ \E h \in 1..Len(ports), r \in RegAddrs, n \in PortReadLens :
          ReadFrom(h, r, n)
    \/ \E h \in 1..Len(ports), r \in RegAddrs, o \in PortOuts : WriteTo(h, r, o)
    \/ \E h \in 1..Len(ports), o \in PortOuts, n \in PortReadLens :
          PortExchange(h, o, n)
    \/ \E h \in 1..Len(ports) : PortPoll(h)
    \/ DoProlog
    \/ DoWrite
    \/ DoRead
    \/ DoEpilog
    \/ Return

PortSpec == Init /\ [][PortNext]_vars

(***************************************************************************)
(* Reads on controllers of every small pair of FIFO sizes.                 *)
(***************************************************************************)
\* (send, receive) FIFO sizes configure may store: the sizes of __init__,
\* sizes around one and two read units with the flush marker, sizes that
\* leave room for no reply byte, for one and for two
ReadFifoSizes == {1, 9, 10, 18, 19, 28} \X (1..4)

ReadNext ==
    \/ \E sizes \in ReadFifoSizes : Configure(sizes, "opens")
    \/ \E n \in 1..MaxReadLen : Read(HIGHEST_I2C_ADDRESS, n) /\ via' = NoPort
    \/ DoProlog
    \/ DoRead
    \/ DoEpilog
    \/ Return

ReadSpec == Init /\ [][ReadNext]_vars

(***************************************************************************)
(* Reading the log of a call.                                              *)
(***************************************************************************)
BusOps == {"read", "write", "exchange", "poll"}
RetryOps == {"read", "write", "exchange"}

\* the address byte of the prolog that opens an attempt of the call
FirstAddress ==
    IF op \in {"read", "poll"} THEN ReadAddress(address) ELSE WriteAddress(address)

\* the entry writes a prolog / the prolog that opens an attempt / the stop
\* sequence / one payload byte / read units
IsProlog(e) ==
    /\ e.t = "W"
    /\ Len(e.cmd) = Len(PrologCmd(0))
    /\ e.cmd = PrologCmd(e.cmd[Len(idle \o start \o write_byte) + 1])
IsFirstProlog(e) == e.t = "W" /\ e.cmd = PrologCmd(FirstAddress)
IsEpilog(e) == e.t = "W" /\ e.cmd = stop
IsByteWrite(e) ==
    /\ e.t = "W"
    /\ Len(e.cmd) = Len(WriteCmd(0))
    /\ e.cmd = WriteCmd(e.cmd[Len(write_byte) + 1])
IsChunkRead(e) ==
    /\ e.t = "W"
    /\ Len(e.cmd) >= Len(read_byte)
    /\ SubSeq(e.cmd, 1, Len(read_byte)) = read_byte

\* the entry reads the one reply byte of a prolog or of a payload byte
IsAckRead(i) ==
    /\ i > 1
    /\ log[i].t = "R"
    /\ IsProlog(log[i - 1]) \/ IsByteWrite(log[i - 1])

\* the positions of the log where an attempt begins / an epilog is written
Attempts == {i \in 1..Len(log) : IsFirstProlog(log[i])}
Epilogs == {i \in 1..Len(log) : IsEpilog(log[i])}

\* the call went to the bus: its checks passed
OnBus == op \in BusOps /\ (pc \notin {"idle", "done"} \/ log # <<>>)

\* the reply byte read at position i was a negative acknowledgement
RepliedNack(i) ==
    /\ IsAckRead(i)
    /\ log[i].reply # <<>>
    /\ log[i].reply[1] % 2 = 1

\* the reply read at position i was empty: a transport error
RepliedNothing(i) == IsAckRead(i) /\ log[i].reply = <<>>

(***************************************************************************)
(* C1: in a read, write, exchange or poll that passed its checks, every    *)
(* attempt is closed by exactly one epilog - the stop sequence written,    *)
(* then one reply byte read - before the next attempt begins and before    *)
(* the call ends, whether the attempt ended in success, in a negative      *)
(* acknowledgement or in a transport error.  On the log: writes and reads  *)
(* alternate, the first write opens an attempt, a later write opens an     *)
(* attempt exactly when the write before it was an epilog, every epilog is *)
(* followed by the read of one byte, and the log of a call that ended ends *)
(* with an epilog.                                                         *)
(***************************************************************************)
C1_EpilogClosesEveryAttempt ==
    OnBus =>
       /\ \A i \in 1..Len(log) :
             /\ log[i].t = (IF i % 2 = 1 THEN "W" ELSE "R")
             /\ i = 1 => IsFirstProlog(log[i])
             /\ (i % 2 = 1 /\ i > 1) =>
                   (IsFirstProlog(log[i]) <=> IsEpilog(log[i - 2]))
             /\ IsEpilog(log[i]) =>
                   i < Len(log) /\ log[i + 1] = ReadDataBytes(1, <<>>)
       /\ Len(log) % 2 = 0
       /\ pc = "done" => log # <<>>
       /\ pc \in {"prolog", "done"} =>
             log = <<>> \/ IsEpilog(log[Len(log) - 1])
       /\ pc \in {"write", "prolog2", "read", "epilog"} =>
             log # <<>> /\ ~IsEpilog(log[Len(log) - 1])

\* an exchange was refused once, then met a transport error, and has ended
C1_Witness ==
    /\ pc = "done"
    /\ op = "exchange"
    /\ result = NoAnswer
    /\ Cardinality(Attempts) = 2
    /\ Cardinality(Epilogs) = 2

(***************************************************************************)
(* C2: read, write and exchange make at most 3 attempts; a further attempt *)
(* follows only an attempt that saw a negative acknowledgement; a call     *)
(* whose last attempt saw one (so also a call whose every prolog is        *)
(* refused) ends with the negative-acknowledgement error after exactly 3   *)
(* attempts, whatever calls came before it.                                *)
(***************************************************************************)
C2_RetryBudget ==
    (OnBus /\ op \in RetryOps) =>
       /\ Cardinality(Attempts) <= 3
       /\ \A i \in Epilogs : i + 1 < Len(log) => RepliedNack(i - 1)
       /\ pc = "done" =>
             /\ RepliedNack(Len(log) - 2) =>
                   result = NackFromSlave /\ Cardinality(Attempts) = 3
             /\ result = NackFromSlave =>
                   RepliedNack(Len(log) - 2) /\ Cardinality(Attempts) = 3

\* a read whose three prologs were all refused has ended
C2_Witness ==
    /\ pc = "done"
    /\ op = "read"
    /\ result = NackFromSlave
    /\ Cardinality(Attempts) = 3
    /\ \A i \in Attempts : RepliedNack(i + 1)

(***************************************************************************)
(* C3: in read, write and exchange, when the engine returns no reply byte  *)
(* to a prolog or to a written byte, nothing more goes to the bus but the  *)
(* one epilog: no further prolog is started, the call raises that error,   *)
(* and a call that meets it in its first attempt has made one attempt.     *)
(***************************************************************************)
C3_TransportErrorNotRetried ==
    (OnBus /\ op \in RetryOps) =>
       \A i \in 1..Len(log) :
          RepliedNothing(i) =>
             /\ pc \in {"epilog", "done"}
             /\ pc = "epilog" => Len(log) = i
             /\ pc = "done" =>
                   /\ Len(log) = i + 2
                   /\ IsEpilog(log[i + 1])
                   /\ result = NoAnswer
             /\ Attempts \cap (i..Len(log)) = {}
             /\ Epilogs \cap (1..i) = {} => Cardinality(Attempts) = 1

\* a write whose second byte got no reply has ended after one attempt
C3_Witness ==
    /\ pc = "done"
    /\ op = "write"
    /\ result = NoAnswer
    /\ Len(log) = 6
    /\ RepliedNothing(4)
    /\ IsByteWrite(log[3])

(***************************************************************************)
(* The read units of the log.                                              *)
(***************************************************************************)
\* the positions of the log where _do_read writes a buffer of read units
ChunkReads == {i \in 1..Len(log) : IsChunkRead(log[i])}

\* the terminations, in order, of the read units of a buffer
UnitKinds(cmd) ==
    [k \in 1..(Len(cmd) \div Len(read_last)) |->
        LET unit == SubSeq(cmd, (k - 1) * Len(read_last) + 1, k * Len(read_last))
        IN  IF unit = read_byte \o nack \o clock_low_data_high THEN "nack"
            ELSE IF unit = read_byte \o ack \o clock_low_data_high THEN "ack"
            ELSE "other"]

\* the terminations of all read units written up to position k of the log
RECURSIVE UnitStream(_)
UnitStream(k) ==
    IF k = 0 THEN <<>>
    ELSE IF IsChunkRead(log[k]) THEN UnitStream(k - 1) \o UnitKinds(log[k].cmd)
    ELSE UnitStream(k - 1)

\* the bytes asked of the engine by the chunk reads up to position k
RECURSIVE Requested(_)
Requested(k) ==
    IF k = 0 THEN 0
    ELSE IF IsChunkRead(log[k]) THEN Requested(k - 1) + log[k + 1].n
    ELSE Requested(k - 1)

\* a read or an exchange is running or has ended, and went to the bus
Reading == OnBus /\ op \in {"read", "exchange"}

\* the call ended / is about to end by returning
HasReturned == pc = "done" /\ result.kind = "return"
IsReturning == HasReturned \/ (pc = "epilog" /\ pending.kind = "return")

(***************************************************************************)
(* C4: a read of n bytes returns exactly n bytes or fails: when the engine *)
(* returns fewer bytes than a chunk asked for, the read fails with a       *)
(* transport error and returns no partial result.                          *)
(***************************************************************************)
C4_Counterexample ==
    (Reading /\ pc = "done") =>
       /\ HasReturned => Len(retval) = readlen
       /\ (\E i \in ChunkReads : Len(log[i + 1].reply) < log[i + 1].n) =>
             result.kind = "I2cIOError"

(***************************************************************************)
(* C5: in the command stream of one read of n bytes exactly one read unit  *)
(* is nack-terminated, and it is the last unit of the whole stream; every  *)
(* other unit, the last unit of an intermediate chunk included, is         *)
(* ack-terminated.                                                         *)
(***************************************************************************)
C5_Counterexample ==
    (Reading /\ IsReturning) =>
       LET stream == UnitStream(Len(log))
       IN  /\ stream # <<>>
           /\ \A k \in 1..Len(stream) :
                 stream[k] = (IF k = Len(stream) THEN "nack" ELSE "ack")

(***************************************************************************)
(* C6: for every read length n >= 1 the byte counts asked of the engine    *)
(* over the chunks of one read sum to exactly n, every chunk asks for      *)
(* between 1 and chunk_size bytes, and only the last chunk may ask for     *)
(* fewer than chunk_size.                                                  *)
(***************************************************************************)
C6_ChunkCounts ==
    Reading =>
       /\ \A i \in ChunkReads :
             /\ log[i + 1].t = "R"
             /\ log[i + 1].n >= 1
             /\ log[i + 1].n <= chunk_size
             /\ (\E j \in ChunkReads : j > i) => log[i + 1].n = chunk_size
       /\ Requested(Len(log)) <= readlen
       /\ pc = "read" => Requested(Len(log)) < readlen
       /\ IsReturning => Requested(Len(log)) = readlen

\* a read of 3 bytes in chunks of 2 and 1 has returned
C6_Witness ==
    /\ HasReturned
    /\ op = "read"
    /\ readlen = 3
    /\ chunk_size = 2
    /\ Cardinality(ChunkReads) = 2
    /\ \E i, j \in ChunkReads : i < j /\ log[i + 1].n = 2 /\ log[j + 1].n = 1

(***************************************************************************)
(* C7: validation comes before any bus activity: read, write, exchange and *)
(* poll with an address above 0x7F, write and exchange with an empty       *)
(* payload, read and exchange with a read length below 1, and exchange     *)
(* with a read length above 65536 / 3 - 1, fail without writing to the     *)
(* engine and without reading from it.                                     *)
(***************************************************************************)
C7_ValidationBeforeBus ==
    (/\ op \in BusOps
     /\ \/ address > 127
        \/ op \in {"write", "exchange"} /\ Len(out) = 0
        \/ op \in {"read", "exchange"} /\ readlen < 1
        \/ op = "exchange" /\ readlen > (65536 \div 3) - 1)
    => /\ pc = "done"
       /\ result.kind = "I2cIOError"
       /\ log = <<>>

\* on an open controller, an exchange asking for 21845 bytes was refused
C7_Witness ==
    /\ pc = "done"
    /\ op = "exchange"
    /\ ftdi = "open"
    /\ address <= 127
    /\ out # <<>>
    /\ readlen = 21845
    /\ result = TooLarge
    /\ log = <<>>

(***************************************************************************)
(* C8: poll returns true when its prolog is acknowledged and returns       *)
(* false, without raising, when it is negatively acknowledged; either way  *)
(* it makes one attempt, one prolog and one epilog, and never retries.     *)
(***************************************************************************)
C8_PollOnce ==
    (OnBus /\ op = "poll") =>
       /\ Len(log) <= 4
       /\ pc = "done" =>
             /\ log = <<WriteData(PrologCmd(2 * address + 1)),
                        ReadDataBytes(1, log[2].reply),
                        WriteData(stop),
                        ReadDataBytes(1, <<>>)>>
             /\ (log[2].reply # <<>> /\ log[2].reply[1] % 2 = 0)
                   => result = ReturnedTrue
             /\ (log[2].reply # <<>> /\ log[2].reply[1] % 2 = 1)
                   => result = ReturnedFalse

\* a poll whose prolog was refused has returned false
C8_Witness ==
    /\ pc = "done"
    /\ op = "poll"
    /\ Len(log) = 4
    /\ RepliedNack(2)
    /\ result = ReturnedFalse

(***************************************************************************)
(* C9: on a controller that was not terminated, get_port(a) with           *)
(* 0 <= a <= 0x7F succeeds and returns the handle every earlier            *)
(* get_port(a) returned, handles of distinct addresses are distinct, and   *)
(* get_port(a) with a > 0x7F fails and adds nothing to the cache.          *)
(***************************************************************************)
C9_Cache ==
    /\ \A a \in DOMAIN slaves :
          /\ a <= 127
          /\ slaves[a] \in 1..Len(ports)
          /\ ports[slaves[a]].address = a
    /\ \A a, b \in DOMAIN slaves : a # b => slaves[a] # slaves[b]
    /\ (pc = "done" /\ op = "get_port" /\ ftdi # "none") =>
          IF address \in 0..127
          THEN /\ result = Returned
               /\ address \in DOMAIN slaves
               /\ retval = <<slaves[address]>>
          ELSE /\ result.kind = "I2cIOError"
               /\ address \notin DOMAIN slaves

C9_Kept ==
    /\ \A a \in DOMAIN slaves : a \in DOMAIN slaves' /\ slaves'[a] = slaves[a]
    /\ (pc' = "done" /\ op' = "get_port" /\ address' > 127) =>
          slaves' = slaves /\ ports' = ports

C9_GetPortSameHandle == []C9_Cache /\ [][C9_Kept]_vars

\* get_port(0), asked again after a port for 0x7F was made, returned the
\* first handle
C9_Witness ==
    /\ pc = "done"
    /\ op = "get_port"
    /\ address = 0
    /\ result = Returned
    /\ retval = <<1>>
    /\ Len(ports) = 2
    /\ DOMAIN slaves = {0, 127}

(***************************************************************************)
(* C10: get_port, read, write, exchange and poll fail with the             *)
(* configuration error, and cause no bus activity, whenever the controller *)
(* is not configured: on a controller on which configure was never called  *)
(* and on a controller after terminate.                                    *)
(***************************************************************************)
C10_Counterexample ==
    (op \in BusOps \cup {"get_port"} /\ ftdi # "open") =>
       /\ pc = "done"
       /\ result = NotInitialized
       /\ log = <<>>

(***************************************************************************)
(* The line levels the engine is told to drive.                            *)
(***************************************************************************)
\* the line levels after the engine ran the commands of a buffer, from the
\* levels before it: the value byte of the last set-bits command; the data
\* bytes of a byte write are skipped, -1 stands for a buffer that does not
\* parse
RECURSIVE LevelsAfter(_, _)
LevelsAfter(cmd, level) ==
    IF cmd = <<>> THEN level
    ELSE LET skip == IF cmd[1] = SEND_IMMEDIATE THEN 1
                     ELSE IF cmd[1] = READ_BITS_PVE_MSB THEN 2
                     ELSE IF cmd[1] \in {SET_BITS_LOW, READ_BYTES_PVE_MSB,
                                         WRITE_BITS_NVE_MSB} THEN 3
                     ELSE IF cmd[1] = WRITE_BYTES_NVE_MSB /\ Len(cmd) >= 3
                     THEN 3 + cmd[2] + 256 * cmd[3] + 1
                     ELSE 0
         IN  IF skip = 0 \/ skip > Len(cmd) THEN -1
             ELSE LevelsAfter(SubSeq(cmd, skip + 1, Len(cmd)),
                              IF cmd[1] = SET_BITS_LOW THEN cmd[2] ELSE level)

\* the line levels after the first k entries of the log; -2 before any
\* command of the call
RECURSIVE LineLevels(_)
LineLevels(k) ==
    IF k = 0 THEN -2
    ELSE IF log[k].t = "W" THEN LevelsAfter(log[k].cmd, LineLevels(k - 1))
    ELSE LineLevels(k - 1)

(***************************************************************************)
(* C11: after a read, write, exchange or poll that passed its checks has   *)
(* returned or raised, the last line levels commanded to the engine are    *)
(* the idle levels, clock and data both high, whatever acknowledgements    *)
(* the engine gave, also after a write whose k-th byte was refused on      *)
(* every attempt.                                                          *)
(***************************************************************************)
C11_BusIdleAfterCall ==
    (OnBus /\ pc = "done") =>
       /\ LineLevels(Len(log)) = IDLE
       /\ BitAnd(LineLevels(Len(log)), SCL_BIT) = SCL_BIT
       /\ BitAnd(LineLevels(Len(log)), SDA_O_BIT) = SDA_O_BIT

\* a write whose second byte was refused on each of its three attempts has
\* raised the negative-acknowledgement error
C11_Witness ==
    /\ pc = "done"
    /\ op = "write"
    /\ Len(out) = 2
    /\ result = NackFromSlave
    /\ Len(log) = 24
    /\ \A a \in Attempts : IsByteWrite(log[a + 4]) /\ RepliedNack(a + 5)

(***************************************************************************)
(* The attempts of a call on the log.                                      *)
(***************************************************************************)
\* the position of the epilog that closes the attempt begun at position a,
\* or the position after the log when the attempt is still open
AttemptEnd(a) ==
    IF \E e \in Epilogs : e > a
    THEN CHOOSE e \in Epilogs : e > a /\ \A f \in Epilogs : f > a => e <= f
    ELSE Len(log) + 1

\* the positions of the buffers written in the attempt begun at a, the
\* epilog excluded, and the index (from 0) of such a buffer in its attempt
AttemptWrites(a) == {i \in a..(AttemptEnd(a) - 1) : log[i].t = "W"}
IndexIn(a, i) == (i - a) \div 2

\* the attempt the call made last
LastAttempt == CHOOSE a \in Attempts : \A b \in Attempts : b <= a

\* the replies of the chunk reads of the attempt begun at a, joined in order
RECURSIVE ChunkBytes(_, _)
ChunkBytes(a, k) ==
    IF k < a THEN <<>>
    ELSE IF IsChunkRead(log[k]) /\ k < Len(log)
    THEN ChunkBytes(a, k - 1) \o log[k + 1].reply
    ELSE ChunkBytes(a, k - 1)

\* the buffer an exchange writes at index j of an attempt, up to the second
\* prolog
ExchangeStep(j) ==
    IF j = 0 THEN PrologCmd(2 * address)
    ELSE IF j <= Len(out) THEN WriteCmd(out[j])
    ELSE PrologCmd(2 * address + 1)

(***************************************************************************)
(* C14: every attempt of an exchange writes, in this order and with no     *)
(* stop sequence in between, the prolog with the write-direction address   *)
(* byte, the outbound bytes in order, the prolog with the read-direction   *)
(* address byte, then read chunks, then one epilog.  An exchange that      *)
(* returns wrote all of them in its last attempt and returns the bytes the *)
(* chunks read.  After a negative acknowledgement, that of the second      *)
(* prolog included, the stop sequence follows and the next attempt starts  *)
(* again at the first prolog and at the first outbound byte.               *)
(***************************************************************************)
C14_ExchangeOrder ==
    (OnBus /\ op = "exchange") =>
       /\ \A a \in Attempts : \A i \in AttemptWrites(a) :
             /\ IndexIn(a, i) <= Len(out) + 1 =>
                   log[i].cmd = ExchangeStep(IndexIn(a, i))
             /\ IndexIn(a, i) > Len(out) + 1 => IsChunkRead(log[i])
             /\ ~IsEpilog(log[i])
       /\ \A i \in 1..Len(log) :
             (RepliedNack(i) /\ i + 3 <= Len(log)) =>
                /\ IsEpilog(log[i + 1])
                /\ log[i + 3].cmd = ExchangeStep(0)
                /\ (i + 5 <= Len(log) /\ ~IsEpilog(log[i + 5])) =>
                      log[i + 5].cmd = ExchangeStep(1)
       /\ HasReturned =>
             /\ AttemptEnd(LastAttempt) = Len(log) - 1
             /\ Cardinality(AttemptWrites(LastAttempt)) > Len(out) + 2
             /\ \A i \in LastAttempt..Len(log) : ~RepliedNack(i)
             /\ retval = ChunkBytes(LastAttempt, Len(log))

\* an exchange of 2 outbound bytes and 3 bytes to read, refused at its
\* second prolog, sent both outbound bytes again and returned the 3 bytes
C14_Witness ==
    /\ HasReturned
    /\ op = "exchange"
    /\ Len(out) = 2
    /\ readlen = 3
    /\ Len(retval) = 3
    /\ Cardinality(Attempts) = 2
    /\ RepliedNack(8)
    /\ log[7].cmd = PrologCmd(2 * address + 1)
    /\ log[13].cmd = WriteCmd(out[1])
    /\ log[15].cmd = WriteCmd(out[2])

(***************************************************************************)
(* C15: within one attempt, once a negative acknowledgement is read, on    *)
(* the prolog or on a written byte, the next buffer the engine receives is *)
(* the stop sequence.  The bytes of a write go out one per buffer, in      *)
(* order, each followed by the read of exactly one reply byte, so the      *)
(* bytes after a refused one are not sent in that attempt.                 *)
(***************************************************************************)
C15_NackStopsAttempt ==
    (OnBus /\ op \in RetryOps) =>
       /\ \A i \in 1..Len(log) :
             RepliedNack(i) =>
                /\ i = Len(log) => pc = "epilog"
                /\ i < Len(log) => IsEpilog(log[i + 1])
       /\ \A i \in 1..Len(log) :
             IsByteWrite(log[i]) =>
                /\ i < Len(log)
                /\ log[i + 1].t = "R"
                /\ log[i + 1].n = 1
                /\ Len(log[i + 1].reply) <= 1
       /\ op = "write" =>
             \A a \in Attempts : \A i \in AttemptWrites(a) :
                i > a =>
                   /\ IndexIn(a, i) <= Len(out)
                   /\ log[i].cmd = WriteCmd(out[IndexIn(a, i)])

\* a write of 2 bytes whose first byte was refused in the first attempt:
\* the stop sequence came next and the second byte was not sent in it
C15_Witness ==
    /\ pc = "done"
    /\ op = "write"
    /\ Len(out) = 2
    /\ Len(log) >= 8
    /\ IsByteWrite(log[3])
    /\ RepliedNack(4)
    /\ IsEpilog(log[5])
    /\ AttemptWrites(1) = {1, 3}

(***************************************************************************)
(* C12: through a slave handle, exchange accepts an empty outbound buffer  *)
(* and then only reads from the slave, and accepts a read length of zero   *)
(* and then only writes to the slave: on a configured controller and with  *)
(* a valid address such a call is not refused by the validation and goes   *)
(* to the bus.                                                             *)
(***************************************************************************)
C12_Counterexample ==
    (/\ pc = "done"
     /\ via.method = "exchange"
     /\ ftdi = "open"
     /\ address \in 0..127
     /\ \/ via.out = <<>> /\ readlen >= 1
        \/ via.out # <<>> /\ readlen = 0)
    => /\ result \notin {NothingToWrite, NothingToRead}
       /\ log # <<>>

(***************************************************************************)
(* C13: write_to(regaddr, out) and read_from(regaddr, n) send as write     *)
(* payload exactly the register address on the configured width (1, 2 or   *)
(* 4 bytes) in the configured byte order, followed for write_to by the     *)
(* bytes of out in order: with big-endian width 2, write_to(0x0102,        *)
(* [0xAA]) sends [0x01, 0x02, 0xAA], with little-endian [0x02, 0x01,       *)
(* 0xAA]; read_from reads its n bytes in the same transaction, after a     *)
(* repeated start.  A register address that does not fit the width is      *)
(* refused by the encoding before anything goes to the bus.                *)
(***************************************************************************)
C13_RegisterBuffer ==
    via.method \in {"write_to", "read_from"} =>
       LET port == ports[via.port]
           width == CASE port.format = "B" -> 1
                      [] port.format = "H" -> 2
                      [] port.format = "I" -> 4
                      [] OTHER -> 0
           encoded == [i \in 1..width |->
                          IF port.endian = ">"
                          THEN (via.regaddr \div (256 ^ (width - i))) % 256
                          ELSE (via.regaddr \div (256 ^ (i - 1))) % 256]
           payload == encoded \o via.out
       IN  /\ width \in {1, 2, 4}
           /\ port.endian \in {"<", ">"}
           /\ IF via.regaddr \div (256 ^ (width - 1)) >= 256
              THEN /\ pc = "done"
                   /\ op = via.method
                   /\ result = StructError
                   /\ log = <<>>
              ELSE /\ op = (IF via.method = "write_to" THEN "write"
                            ELSE "exchange")
                   /\ out = payload
                   /\ (via.regaddr = 258 /\ width = 2 /\ via.out = <<170>>) =>
                         out = (IF port.endian = ">" THEN <<1, 2, 170>>
                                ELSE <<2, 1, 170>>)
                   /\ \A a \in Attempts : \A i \in AttemptWrites(a) :
                         (i > a /\ IndexIn(a, i) <= Len(payload)) =>
                            log[i].cmd = WriteCmd(payload[IndexIn(a, i)])
                   /\ (HasReturned /\ op = "write") =>
                         Cardinality(AttemptWrites(LastAttempt))
                            = Len(payload) + 1
                   /\ (HasReturned /\ op = "exchange") =>
                         LET n == Cardinality(AttemptWrites(LastAttempt))
                             last == LastAttempt + 2 * (n - 1)
                         IN  /\ n > Len(payload) + 2
                             /\ log[LastAttempt + 2 * (Len(payload) + 1)].cmd
                                   = PrologCmd(ReadAddress(address))
                             /\ IsChunkRead(log[last])
                             /\ Requested(Len(log)) = readlen

\* on a big-endian port of width 2, write_to(0x0102, [0xAA]) has returned
\* after writing 0x01, 0x02, 0xAA
C13_Witness ==
    /\ HasReturned
    /\ via.method = "write_to"
    /\ ports[via.port].endian = ">"
    /\ ports[via.port].format = "H"
    /\ via.regaddr = 258
    /\ via.out = <<170>>
    /\ Len(log) = 10
    /\ log[3].cmd = WriteCmd(1)
    /\ log[5].cmd = WriteCmd(2)
    /\ log[7].cmd = WriteCmd(170)

(***************************************************************************)
(* The address bytes on the log.                                           *)
(***************************************************************************)
\* the address byte of a prolog buffer
AddressByte(e) == e.cmd[Len(idle \o start \o write_byte) + 1]

\* the direction bit the prolog at position i of the log should carry: 1
\* for read, for poll and for the second prolog of an exchange
DirectionBit(i) ==
    IF op \in {"read", "poll"} THEN 1
    ELSE IF op = "exchange" /\ ~IsFirstProlog(log[i]) THEN 1
    ELSE 0

(***************************************************************************)
(* C19: every address byte a handle sends in a prolog equals               *)
(* 2 * (base address + current shift) plus the direction bit, and          *)
(* base + shift lies in 0..0x7F: the direction bit is 0 for write and for  *)
(* the first prolog of exchange, 1 for read, for poll and for the second   *)
(* prolog of exchange; no sequence of shift_address calls and operations   *)
(* puts an address outside 0..0x7F on the bus.                             *)
(***************************************************************************)
C19_Counterexample ==
    (via.port # 0 /\ OnBus) =>
       LET a == ports[via.port].address + ports[via.port].shift
       IN  \A i \in 1..Len(log) :
              IsProlog(log[i]) =>
                 /\ a \in 0..127
                 /\ AddressByte(log[i]) = 2 * a + DirectionBit(i)

(***************************************************************************)
(* C20: shift_address(offset) succeeds exactly when base address + offset  *)
(* <= 0x7F; after it succeeds the shift of the handle is offset, whatever  *)
(* it was before, and every later operation of the handle is made on       *)
(* base + offset; when it fails the shift of the handle is unchanged; in   *)
(* neither case is there bus activity.  Nothing but a successful           *)
(* shift_address changes the shift of a handle.                            *)
(***************************************************************************)
C20_Shift ==
    /\ (pc = "done" /\ via.method = "shift_address") =>
          /\ via.port \in 1..Len(ports)
          /\ result = Returned <=> ports[via.port].address + via.offset <= 127
          /\ result = Returned => ports[via.port].shift = via.offset
          /\ result # Returned => result = NoSuchSlave
          /\ log = <<>>
    /\ (via.port # 0 /\ op \in BusOps) =>
          /\ address = ports[via.port].address + ports[via.port].shift
          /\ log # <<>> => IsFirstProlog(log[1])

C20_Kept ==
    /\ Len(ports') >= Len(ports)
    /\ \A h \in 1..Len(ports) :
          /\ ports'[h].address = ports[h].address
          /\ ports'[h].shift # ports[h].shift =>
                /\ pc = "idle"
                /\ via'.method = "shift_address"
                /\ via'.port = h
                /\ result' = Returned
                /\ ports'[h].shift = via'.offset
    /\ (pc = "idle" /\ via'.method = "shift_address" /\ result' # Returned) =>
          ports' = ports

C20_ShiftAddress == []C20_Shift /\ [][C20_Kept]_vars

\* on a handle of base address 1 shifted by 126, shift_address(127) has
\* failed and the shift is still 126
C20_Witness ==
    /\ pc = "done"
    /\ via.method = "shift_address"
    /\ via.offset = 127
    /\ result = NoSuchSlave
    /\ ports[via.port].address = 1
    /\ ports[via.port].shift = 126

(***************************************************************************)
(* The round trips of a read on the log.                                   *)
(***************************************************************************)
\* the positions of the buffers _do_read wrote in the attempt begun at a
ReadWrites(a) == {i \in AttemptWrites(a) : i > a}

\* the round trips _do_read made in the last attempt of the call
Rounds == IF Attempts = {} THEN 0 ELSE Cardinality(ReadWrites(LastAttempt))

\* the byte length of one read unit: read byte, ack or nack, clock low
UnitSize == Len(read_byte) + Len(ack) + Len(clock_low_data_high)

\* ceil(n / d) for d >= 1
Ceil(n, d) == (n + d - 1) \div d

\* a read made on the controller is running or has ended, and went to the
\* bus
PlainRead == OnBus /\ op = "read"

(***************************************************************************)
(* C16, as stated: the chunk size used by a read equals                    *)
(* min(receive_capacity - 2, send_capacity \div per-unit command size),    *)
(* for every pair of capacities.  On the log: the k-th round trip of a     *)
(* read of n bytes asks for min of that chunk size and of what is left.    *)
(***************************************************************************)
C16_Counterexample ==
    PlainRead =>
       LET size == Min(rx_size - 2, tx_size \div UnitSize)
       IN  \A a \in Attempts : \A i \in ReadWrites(a) :
              log[i + 1].n
                 = Min(readlen - (IndexIn(a, i) - 1) * size, size)

(***************************************************************************)
(* C16, amended: the chunk size used by a read equals                      *)
(* min(receive_capacity - 2, (send_capacity - 1) \div per-unit command     *)
(* size), one byte of the send capacity being kept for the immediate-flush *)
(* marker, for every pair of capacities.                                   *)
(***************************************************************************)
C16_ChunkSize ==
    PlainRead =>
       LET size == Min(rx_size - 2, (tx_size - 1) \div UnitSize)
       IN  /\ UnitSize = 9
           /\ chunk_size = size
           /\ \A a \in Attempts : \A i \in ReadWrites(a) :
                 log[i + 1].n
                    = Min(readlen - (IndexIn(a, i) - 1) * size, size)

\* with a send capacity of 18 and a receive capacity of 4, a read of 2
\* bytes has returned after asking for 1 byte, then for 1 byte
C16_Witness ==
    /\ HasReturned
    /\ op = "read"
    /\ tx_size = 18
    /\ rx_size = 4
    /\ readlen = 2
    /\ Len(log) = 8
    /\ log[4].n = 1
    /\ log[6].n = 1

(***************************************************************************)
(* C17: a read of n >= 1 bytes terminates after exactly                    *)
(* ceil(n / chunk_size) round trips with the engine, for every n and every *)
(* pair of capacities >= 1.  On the log: what is left to read stays within *)
(* 1..n while the loop runs, a read that made a round trip has a chunk     *)
(* size of at least 1 (no number of round trips is ceil(n / chunk_size)    *)
(* otherwise), it never makes more round trips than that, and it has made  *)
(* exactly that many when it returns.                                      *)
(***************************************************************************)
C17_Counterexample ==
    PlainRead =>
       /\ pc = "read" => count \in 1..readlen
       /\ Rounds >= 1 =>
             /\ chunk_size >= 1
             /\ Rounds <= Ceil(readlen, chunk_size)
             /\ IsReturning => Rounds = Ceil(readlen, chunk_size)
       /\ IsReturning => Rounds >= 1

(***************************************************************************)
(* C18: whenever the chunk size is at least 1, every command buffer a read *)
(* sends to the engine, read units plus the immediate-flush marker when    *)
(* present, is no longer than the send capacity, and every chunk asks the  *)
(* engine for at most receive_capacity - 2 reply bytes.                    *)
(***************************************************************************)
C18_ChunkFits ==
    (PlainRead /\ chunk_size >= 1) =>
       \A a \in Attempts : \A i \in ReadWrites(a) :
          /\ IsChunkRead(log[i])
          /\ Len(log[i].cmd) <= tx_size
          /\ Len(log[i].cmd) \in {UnitSize * log[i + 1].n,
                                  UnitSize * log[i + 1].n + 1}
          /\ log[i + 1].n >= 1
          /\ log[i + 1].n <= rx_size - 2

\* with a send capacity of 19 and a receive capacity of 4, a read of 2
\* bytes has returned after one buffer of two units and the marker, 19
\* bytes, asking for 2 bytes
C18_Witness ==
    /\ HasReturned
    /\ op = "read"
    /\ tx_size = 19
    /\ rx_size = 4
    /\ readlen = 2
    /\ Len(log) = 6
    /\ Len(log[3].cmd) = 19
    /\ log[4].n = 2

(***************************************************************************)
(* The immediate-flush markers of a buffer.                                *)
(***************************************************************************)
\* the send-immediate commands of a buffer, counted command by command so
\* that an argument byte is not taken for a marker; -1 for a buffer that
\* does not parse
RECURSIVE Markers(_)
Markers(cmd) ==
    IF cmd = <<>> THEN 0
    ELSE LET skip == IF cmd[1] = SEND_IMMEDIATE THEN 1
                     ELSE IF cmd[1] = READ_BITS_PVE_MSB THEN 2
                     ELSE IF cmd[1] \in {SET_BITS_LOW, READ_BYTES_PVE_MSB,
                                         WRITE_BITS_NVE_MSB} THEN 3
                     ELSE 0
             rest == Markers(SubSeq(cmd, skip + 1, Len(cmd)))
         IN  IF skip = 0 \/ skip > Len(cmd) \/ rest < 0 THEN -1
             ELSE rest + (IF cmd[1] = SEND_IMMEDIATE THEN 1 ELSE 0)

(***************************************************************************)
(* C21: in a read, the command buffer of every chunk that another chunk    *)
(* follows contains no immediate-flush marker, and the command buffer of   *)
(* the last chunk, the one after which the read returns, ends with exactly *)
(* one immediate-flush marker.                                             *)
(***************************************************************************)
C21_ImmediateOnLastChunk ==
    PlainRead =>
       \A a \in Attempts : \A i \in ReadWrites(a) :
          IF IsReturning /\ i = Len(log) - (IF pc = "done" THEN 3 ELSE 1)
          THEN /\ Markers(log[i].cmd) = 1
               /\ log[i].cmd[Len(log[i].cmd)] = SEND_IMMEDIATE
               /\ \A j \in ReadWrites(a) : j <= i
          ELSE Markers(log[i].cmd) = 0

\* with a send capacity of 10 and a receive capacity of 4, a read of 3
\* bytes has returned after three chunks of one unit: the first two buffers
\* without marker, the third with one
C21_Witness ==
    /\ HasReturned
    /\ op = "read"
    /\ tx_size = 10
    /\ rx_size = 4
    /\ readlen = 3
    /\ Len(log) = 10
    /\ log[3].cmd = read_last
    /\ log[5].cmd = read_last
    /\ log[7].cmd = read_last \o immediate

(***************************************************************************)
(* C22: during one read, a chunk of the same block size as the chunk       *)
(* before it takes the cached buffer of that chunk and builds none: the    *)
(* number of command buffers built in a read equals the number of changes  *)
(* of block size between consecutive chunks, the first chunk counted as a  *)
(* change.                                                                 *)
(***************************************************************************)
C22_Counterexample ==
    (PlainRead /\ (pc = "read" \/ IsReturning)) =>
       LET a == LastAttempt
           changes == {i \in ReadWrites(a) :
                          i = a + 2 \/ log[i + 1].n # log[i - 1].n}
       IN  built = Cardinality(changes)

=============================================================================
